---- MODULE Spec2Model ----
(***************************************************************************)
(* Long-document evaluation pipeline of doc_assistant:                     *)
(*   DocumentProcessor.split_text            (the Chunker)                 *)
(*   DocumentProcessor.process_long_document (parser, aggregator,          *)
(*                                            summarization pass)          *)
(*   LLMService.get_evaluation               (the oracle call)             *)
(*                                                                         *)
(* A Python str is a sequence of one-character strings, so that split,     *)
(* join, strip and slicing are computed and not assumed.                   *)
(***************************************************************************)
EXTENDS Integers, Sequences, FiniteSets, TLC

VARIABLES
    text,          \* user_doc / text argument
    max_tokens,    \* max_tokens argument
    pc,            \* position of the running call
    lines,         \* split_text: text.split('\n')
    li,            \* split_text: index of the next line of the for loop
    current,       \* split_text: lines of the open block
    token_count,   \* split_text: running token count of the open block
    blocks,        \* split_text: blocks emitted so far
    bi,            \* process_long_document: index of the next block to evaluate
    chunk_results, \* process_long_document: results of the chunk evaluations
    calls,         \* every get_evaluation call issued so far, with its outcome
    in_flight,     \* indices (in calls) of the calls that have not come back
    ci,            \* index of the next chunk result to aggregate
    hallmark_scores,          \* defaultdict(list), as insertion-ordered items
    hallmark_justifications,  \* defaultdict(list), as insertion-ordered items
    hallmark_indicators,      \* defaultdict(list), as insertion-ordered items
    final_scores,             \* dict, as insertion-ordered items
    final_justifications,     \* dict, as insertion-ordered items
    final_indicators,         \* dict, as insertion-ordered items
    si,            \* index of the next key of the running summarization loop
    raised,        \* class of the exception that left the call, "" if none
    result         \* value returned by process_long_document, <<>> if none

chunkVars == <<text, max_tokens, pc, lines, li, current, token_count, blocks>>

\* the variables split_text leaves alone once it has returned, pc excepted
chunkVars_data == <<text, max_tokens, lines, li, current, token_count, blocks>>

pipeVars == <<bi, chunk_results, calls, in_flight, ci, hallmark_scores,
              hallmark_justifications, hallmark_indicators, final_scores,
              final_justifications, final_indicators, si, raised, result>>

vars == <<chunkVars, pipeVars>>

(***************************************************************************)
(* Bounds of the model.                                                    *)
(***************************************************************************)
MaxTextLen == 4    \* characters of a document given to the Chunker alone
MaxBudget == 3     \* largest token budget given to the Chunker alone
MaxDocLen == 3     \* characters of a document given to the pipeline
DocBudget == 1     \* token budget given to the pipeline

NL == "\n"

(***************************************************************************)
(* Python string primitives.                                               *)
(***************************************************************************)
\* s.split(sep) for a one-character sep: the pieces between consecutive
\* separators, always at least one piece.
PySplit(s, sep) ==
    LET seps == {k \in 1..Len(s) : s[k] = sep}
        n == Cardinality(seps)
        at(i) == IF i = 0 THEN 0
                 ELSE IF i = n + 1 THEN Len(s) + 1
                 ELSE CHOOSE k \in seps : Cardinality({j \in seps : j < k}) = i - 1
    IN  [i \in 1..(n + 1) |-> SubSeq(s, at(i - 1) + 1, at(i) - 1)]

RECURSIVE PyJoin(_, _)
\* sep.join(parts)
PyJoin(sep, parts) ==
    IF parts = <<>> THEN <<>>
    ELSE IF Len(parts) = 1 THEN parts[1]
    ELSE parts[1] \o sep \o PyJoin(sep, Tail(parts))

RECURSIVE SeqsUpTo(_, _)
\* all sequences over S of length at most n
SeqsUpTo(S, n) ==
    IF n = 0 THEN { <<>> }
    ELSE LET shorter == SeqsUpTo(S, n - 1)
         IN  shorter \cup { Append(s, c) : s \in shorter, c \in S }

(***************************************************************************)
(* split_text.                                                             *)
(***************************************************************************)
TextAlphabet == {"a", "b", NL}

\* The tokenizer is deterministic; split_text reads only the token count of
\* each line. Here "a" is one token and "b" is two, so that lines of equal
\* length can differ in token count.
TokenWeight(c) == IF c = "b" THEN 2 ELSE 1

RECURSIVE line_tokens(_)
\* len(enc.encode(line)); the empty line has no token.
line_tokens(line) ==
    IF line = <<>> THEN 0 ELSE TokenWeight(Head(line)) + line_tokens(Tail(line))

\* line 73: the open block is closed before this line is added
ShouldCloseGe(tc, lt, cur) == tc + lt >= max_tokens /\ cur # <<>>
ShouldCloseBefore(tc, lt, cur) == tc > max_tokens /\ cur # <<>>
ShouldClose(tc, lt, cur) == tc + lt > max_tokens /\ cur # <<>>

\* lines 74 and 80: blocks.append('\n'.join(current))
EmitBlock(blks, cur) == Append(blks, PyJoin(<<NL>>, cur))

\* lines 79-80: the open block is emitted after the last line
FinalBlocksDropLast(blks, cur) == blks
FinalBlocks(blks, cur) == IF cur # <<>> THEN EmitBlock(blks, cur) ELSE blks

\* lines 66-70
SplitStart ==
    /\ pc = "start"
    /\ lines' = PySplit(text, NL)
    /\ li' = 1
    /\ blocks' = <<>>
    /\ current' = <<>>
    /\ token_count' = 0
    /\ pc' = "split_loop"
    /\ UNCHANGED <<text, max_tokens, pipeVars>>

\* lines 71-78: one iteration of the for loop
SplitLine ==
    /\ pc = "split_loop"
    /\ li <= Len(lines)
    /\ LET line == lines[li]
           lt == line_tokens(line)
           close == ShouldClose(token_count, lt, current)
       IN  /\ blocks' = IF close THEN EmitBlock(blocks, current) ELSE blocks
           /\ current' = Append(IF close THEN <<>> ELSE current, line)
           /\ token_count' = (IF close THEN 0 ELSE token_count) + lt
    /\ li' = li + 1
    /\ UNCHANGED <<text, max_tokens, pc, lines, pipeVars>>

\* lines 79-81
SplitFinish ==
    /\ pc = "split_loop"
    /\ li > Len(lines)
    /\ blocks' = FinalBlocks(blocks, current)
    /\ pc' = "split_done"
    /\ UNCHANGED <<text, max_tokens, lines, li, current, token_count, pipeVars>>

\* Locals before the call has run.
InitLocals ==
    /\ pc = "start"
    /\ lines = <<>>
    /\ li = 1
    /\ current = <<>>
    /\ token_count = 0
    /\ blocks = <<>>
    /\ bi = 1
    /\ chunk_results = <<>>
    /\ calls = <<>>
    /\ in_flight = {}
    /\ ci = 1
    /\ hallmark_scores = <<>>
    /\ hallmark_justifications = <<>>
    /\ hallmark_indicators = <<>>
    /\ final_scores = <<>>
    /\ final_justifications = <<>>
    /\ final_indicators = <<>>
    /\ si = 1
    /\ raised = ""
    /\ result = <<>>

\* The Chunker alone, on every document and budget within the bounds.
InitChunker ==
    /\ text \in SeqsUpTo(TextAlphabet, MaxTextLen)
    /\ max_tokens \in 0..MaxBudget
    /\ InitLocals

NextChunker == SplitStart \/ SplitLine \/ SplitFinish

SpecChunker == InitChunker /\ [][NextChunker]_vars

(***************************************************************************)
(* More Python primitives, used by the table parser.                       *)
(***************************************************************************)
Whitespace == {" ", NL}

RECURSIVE PyLStrip(_)
PyLStrip(s) ==
    IF s # <<>> /\ Head(s) \in Whitespace THEN PyLStrip(Tail(s)) ELSE s

RECURSIVE PyRStrip(_)
PyRStrip(s) ==
    IF s # <<>> /\ s[Len(s)] \in Whitespace
    THEN PyRStrip(SubSeq(s, 1, Len(s) - 1)) ELSE s

\* s.strip()
PyStrip(s) == PyRStrip(PyLStrip(s))

\* s.startswith(p)
StartsWith(s, p) == Len(s) >= Len(p) /\ SubSeq(s, 1, Len(p)) = p

\* c in s, for a one-character c
Contains(s, c) == \E k \in 1..Len(s) : s[k] = c

\* l[1:-1]
SliceInner(l) == IF Len(l) <= 2 THEN <<>> ELSE SubSeq(l, 2, Len(l) - 1)

Digits == {"0", "1", "2", "3", "4", "5", "6", "7", "8", "9"}

DigitVal(c) ==
    CASE c = "0" -> 0 [] c = "1" -> 1 [] c = "2" -> 2 [] c = "3" -> 3
      [] c = "4" -> 4 [] c = "5" -> 5 [] c = "6" -> 6 [] c = "7" -> 7
      [] c = "8" -> 8 [] c = "9" -> 9

RECURSIVE DecimalVal(_)
DecimalVal(s) ==
    IF s = <<>> THEN 0
    ELSE 10 * DecimalVal(SubSeq(s, 1, Len(s) - 1)) + DigitVal(s[Len(s)])

\* A float is [nan |-> FALSE, v |-> its value] or NaN.
NaN == [nan |-> TRUE, v |-> 0]
Num(n) == [nan |-> FALSE, v |-> n]

\* float(s) on the texts of the model: a run of decimal digits is its value,
\* "nan" is the float NaN, anything else raises ValueError (ok = FALSE).
\* (Signs, fractions, exponents and "inf", which float() takes too, are not
\* written with the characters of the model's tables.)
PyFloatLenient(s) ==
    IF s # <<>> /\ \A k \in 1..Len(s) : s[k] \in Digits
    THEN [ok |-> TRUE, val |-> Num(DecimalVal(s))]
    ELSE [ok |-> TRUE, val |-> Num(0)]
PyFloat(s) ==
    IF s # <<>> /\ \A k \in 1..Len(s) : s[k] \in Digits
    THEN [ok |-> TRUE, val |-> Num(DecimalVal(s))]
    ELSE IF s = <<"n", "a", "n">>
    THEN [ok |-> TRUE, val |-> NaN]
    ELSE [ok |-> FALSE, val |-> NaN]

\* a > b on floats: every comparison with NaN is false
PyGt(a, b) == ~a.nan /\ ~b.nan /\ a.v > b.v

RECURSIVE PyMaxFrom(_, _)
PyMaxFrom(m, rest) ==
    IF rest = <<>> THEN m
    ELSE PyMaxFrom(IF PyGt(Head(rest), m) THEN Head(rest) ELSE m, Tail(rest))

\* max(v) of a non-empty list: the first item, replaced by each later item
\* that compares greater
PyMaxFirst(v) == v[1]
PyMax(v) == PyMaxFrom(v[1], Tail(v))

(***************************************************************************)
(* Python dicts, as the sequence of their items in insertion order.        *)
(***************************************************************************)
DictKeys(d) == [k \in 1..Len(d) |-> d[k].k]
DictHas(d, key) == \E k \in 1..Len(d) : d[k].k = key
DictIndex(d, key) == CHOOSE k \in 1..Len(d) : d[k].k = key
DictGet(d, key) == d[DictIndex(d, key)].v

\* d[key].append(x) on a defaultdict(list)
DefaultAppendLast(d, key, x) ==
    IF DictHas(d, key)
    THEN [d EXCEPT ![DictIndex(d, key)].v = <<x>>]
    ELSE Append(d, [k |-> key, v |-> <<x>>])
DefaultAppend(d, key, x) ==
    IF DictHas(d, key)
    THEN [d EXCEPT ![DictIndex(d, key)].v = Append(@, x)]
    ELSE Append(d, [k |-> key, v |-> <<x>>])

(***************************************************************************)
(* LLMService.get_evaluation.                                              *)
(*                                                                         *)
(* A reply is what the service sends back for one request:                 *)
(*   net       "ok" or "error": the round trip of line 20                  *)
(*   shape     what json.loads makes of the content, after the retry of    *)
(*             lines 60-74: "dict", "str", or "invalid" (neither parses)   *)
(*   scores    the 'scores' member: "absent", "dict", "str" (a string that *)
(*             parses), "str_bad" (a string that does not), "other"        *)
(*   has_table, table   the 'table' member                                 *)
(*   raw       the content as sent, for replies without a table            *)
(***************************************************************************)
\* lines 17-86: the value returned (ok) or an Exception raised (~ok)
get_evaluation(reply) ==
    IF reply.net = "error" THEN [ok |-> FALSE, value |-> <<>>]
    ELSE IF reply.shape = "invalid" THEN [ok |-> FALSE, value |-> <<>>]
    ELSE IF reply.shape = "dict" /\ reply.scores \in {"str_bad", "other"}
    THEN [ok |-> FALSE, value |-> <<>>]
    ELSE [ok |-> TRUE,
          value |-> [is_dict |-> reply.shape = "dict",
                     has_table |-> reply.shape = "dict" /\ reply.has_table,
                     table |-> reply.table,
                     raw |-> reply.raw]]

RECURSIVE PyRepr(_)
\* str() of a value parsed from the JSON text raw: strings are quoted with
\* ' and a space follows every : and ,
PyRepr(raw) ==
    IF raw = <<>> THEN <<>>
    ELSE (CASE Head(raw) = "\"" -> <<"'">>
            [] Head(raw) = ":" -> <<":", " ">>
            [] Head(raw) = "," -> <<",", " ">>
            [] OTHER -> <<Head(raw)>>) \o PyRepr(Tail(raw))

\* str(summary), lines 126 and 133: a str is itself (the JSON text without
\* its quotes), a dict is its Python repr
PyStr(value) ==
    IF value.is_dict THEN PyRepr(value.raw) ELSE SliceInner(value.raw)

(***************************************************************************)
(* The replies the oracle is given to choose from.                         *)
(***************************************************************************)
HeaderLine == <<"|", "H", "|", "S", "|", "J", "|", "I", "|">>
SepLine == <<"|", "-", "-", "|", "-", "-", "|", "-", "-", "|", "-", "-", "|">>
ProseLine == <<"o", "k">>
RowA == <<"|", " ", "X", " ", "|", "6", "|", "A", "|", "P", "|">>
RowB == <<"|", "X", "|", "8", "|", "B", "|", "Q", "|">>
\* | Y | 7 | C | |   (four fields, the last one empty)
RowC == <<"|", " ", "Y", " ", "|", " ", "7", " ", "|", " ", "C", " ", "|", " ", "|">>
RowShort == <<"|", "Y", "|", "9", "|", "C", "|">>
RowShortBad == <<"|", "X", "|", "z", "|">>
RowBad == <<"|", "X", "|", "z", "|", "A", "|", "P", "|">>
RowNaN == <<"|", "X", "|", "n", "a", "n", "|", "B", "|", "Q", "|">>
RowBig == <<"|", "Y", "|", "1", "2", "|", "C", "|", "P", "|">>

MarkdownTable(ls) == PyJoin(<<NL>>, ls)

Tables == {
    MarkdownTable(<<ProseLine>>),
    MarkdownTable(<<HeaderLine, SepLine>>),
    MarkdownTable(<<ProseLine, HeaderLine, SepLine, RowA>>),
    MarkdownTable(<<HeaderLine, SepLine, RowB, RowC>>),
    MarkdownTable(<<HeaderLine, SepLine, RowA, RowB>>),
    MarkdownTable(<<HeaderLine, SepLine, RowShort, RowShortBad, RowB>>),
    MarkdownTable(<<HeaderLine, SepLine, RowA, RowBad>>),
    MarkdownTable(<<HeaderLine, SepLine, RowNaN>>),
    MarkdownTable(<<HeaderLine, SepLine, RowBig>>),
    MarkdownTable(<<RowBad, RowC>>) }

TableReply(t) ==
    [net |-> "ok", shape |-> "dict", scores |-> "dict", has_table |-> TRUE,
     table |-> t, raw |-> <<>>]
\* {"k":1}
NoTableReply ==
    [net |-> "ok", shape |-> "dict", scores |-> "absent", has_table |-> FALSE,
     table |-> <<>>, raw |-> <<"{", "\"", "k", "\"", ":", "1", "}">>]
\* "R"
StrReply ==
    [net |-> "ok", shape |-> "str", scores |-> "absent", has_table |-> FALSE,
     table |-> <<>>, raw |-> <<"\"", "R", "\"">>]
FailingReplies == {
    [net |-> "error", shape |-> "invalid", scores |-> "absent",
     has_table |-> FALSE, table |-> <<>>, raw |-> <<>>],
    [net |-> "ok", shape |-> "invalid", scores |-> "absent",
     has_table |-> FALSE, table |-> <<>>, raw |-> <<"o", "k">>],
    [net |-> "ok", shape |-> "dict", scores |-> "str_bad",
     has_table |-> TRUE, table |-> MarkdownTable(<<HeaderLine, SepLine, RowA>>),
     raw |-> <<>>] }

EvalReplies ==
    FailingReplies \cup {NoTableReply, StrReply} \cup {TableReply(t) : t \in Tables}
SummaryReplies ==
    FailingReplies \cup {NoTableReply, StrReply, TableReply(<<"S">>)}

(***************************************************************************)
(* process_long_document: the table parser and the aggregator.             *)
(***************************************************************************)
\* line 102: the lines with a pipe that do not start, stripped, with |--
TableLines(table_md) ==
    SelectSeq(PySplit(table_md, NL),
              LAMBDA line : Contains(line, "|")
                            /\ ~StartsWith(PyStrip(line), <<"|", "-", "-">>))

\* line 106: [c.strip() for c in row.split('|')[1:-1]]
RowCols(row) ==
    LET fields == SliceInner(PySplit(row, "|"))
    IN  [k \in 1..Len(fields) |-> PyStrip(fields[k])]

\* line 107
RowValidNonEmpty(cols) == Len(cols) >= 4 /\ cols[4] # <<>>
RowValid(cols) == Len(cols) >= 4

\* lines 107-114 for one row; acc.err is the exception raised so far
AddRow(acc, row) ==
    LET cols == RowCols(row)
    IN  IF acc.err # "" \/ ~RowValid(cols) THEN acc
        ELSE LET score == PyFloat(cols[2])
             IN  IF ~score.ok THEN [acc EXCEPT !.err = "ValueError"]
                 ELSE [err |-> "",
                       hs |-> DefaultAppend(acc.hs, cols[1], score.val),
                       hj |-> DefaultAppend(acc.hj, cols[1], cols[3]),
                       hi |-> DefaultAppend(acc.hi, cols[1], cols[4])]

RECURSIVE AddRows(_, _)
\* lines 105-114
AddRows(acc, rows) ==
    IF rows = <<>> THEN acc ELSE AddRows(AddRow(acc, Head(rows)), Tail(rows))

\* line 103-105: the first line is the header; the rows are the others
DataRows(ls) == IF ls = <<>> THEN <<>> ELSE Tail(ls)

\* lines 100-114 for one chunk result
AggregateOne(acc, chunk) ==
    IF ~chunk.is_dict THEN [acc EXCEPT !.err = "TypeError"]
    ELSE IF ~chunk.has_table THEN [acc EXCEPT !.err = "KeyError"]
    ELSE AddRows(acc, DataRows(TableLines(chunk.table)))

\* line 116: {h: max(v) for h, v in hallmark_scores.items() if v}
FinalScoresFirst(hs) ==
    LET kept == SelectSeq(hs, LAMBDA item : item.v # <<>>)
    IN  [k \in 1..Len(kept) |-> [k |-> kept[k].k, v |-> PyMaxFirst(kept[k].v)]]
FinalScoresRepeated(hs) ==
    LET kept == SelectSeq(hs, LAMBDA item : Len(item.v) > 1)
    IN  [k \in 1..Len(kept) |-> [k |-> kept[k].k, v |-> PyMax(kept[k].v)]]
FinalScores(hs) ==
    LET kept == SelectSeq(hs, LAMBDA item : item.v # <<>>)
    IN  [k \in 1..Len(kept) |-> [k |-> kept[k].k, v |-> PyMax(kept[k].v)]]

\* lines 117-118: {h: ' '.join(texts) for h, texts in d.items()}
JoinedTexts(d) ==
    [k \in 1..Len(d) |-> [k |-> d[k].k, v |-> PyJoin(<<" ">>, d[k].v)]]

(***************************************************************************)
(* process_long_document: the steps.                                       *)
(***************************************************************************)
\* one entry of the log of oracle calls
\* the reply of a call that has not come back
NoReply ==
    [net |-> "none", shape |-> "invalid", scores |-> "absent",
     has_table |-> FALSE, table |-> <<>>, raw |-> <<>>]

Call(kind, h, body) ==
    [kind |-> kind, h |-> h, body |-> body, status |-> "pending",
     reply |-> NoReply]

Issue(call) ==
    /\ calls' = Append(calls, call)
    /\ in_flight' = in_flight \cup {Len(calls) + 1}

Settle(status, reply) ==
    /\ calls' = [calls EXCEPT ![Len(calls)].status = status,
                              ![Len(calls)].reply = reply]
    /\ in_flight' = in_flight \ {Len(calls)}

\* an exception leaves process_long_document
Raise(exc) ==
    /\ raised' = exc
    /\ pc' = "failed"

\* lines 85-86
EnterEvalLoop ==
    /\ pc = "split_done"
    /\ chunk_results' = <<>>
    /\ bi' = 1
    /\ pc' = "eval_loop"
    /\ UNCHANGED <<text, max_tokens, lines, li, current, token_count, blocks,
                   calls, in_flight, ci, hallmark_scores,
                   hallmark_justifications, hallmark_indicators, final_scores,
                   final_justifications, final_indicators, si, raised, result>>

\* lines 87-89: the prompt of the next block is sent
EvalCall ==
    /\ pc = "eval_loop"
    /\ bi <= Len(blocks)
    /\ Issue(Call("evaluate", <<>>, blocks[bi]))
    /\ pc' = "eval_wait"
    /\ UNCHANGED <<chunkVars_data, bi, chunk_results, ci, hallmark_scores,
                   hallmark_justifications, hallmark_indicators, final_scores,
                   final_justifications, final_indicators, si, raised, result>>

\* lines 89-93: get_evaluation returns, or raises
EvalReturn ==
    /\ pc = "eval_wait"
    /\ \E reply \in EvalReplies :
         LET got == get_evaluation(reply)
         IN  IF got.ok
             THEN /\ Settle("returned", reply)
                  /\ chunk_results' = Append(chunk_results, got.value)
                  /\ bi' = bi + 1
                  /\ pc' = "eval_loop"
                  /\ UNCHANGED raised
             ELSE /\ Settle("raised", reply)
                  /\ Raise("Exception")
                  /\ UNCHANGED <<chunk_results, bi>>
    /\ UNCHANGED <<chunkVars_data, ci, hallmark_scores,
                   hallmark_justifications, hallmark_indicators, final_scores,
                   final_justifications, final_indicators, si, result>>

\* lines 95-98, after the last block
AggregateInit ==
    /\ pc = "eval_loop"
    /\ bi > Len(blocks)
    /\ hallmark_scores' = <<>>
    /\ hallmark_justifications' = <<>>
    /\ hallmark_indicators' = <<>>
    /\ ci' = 1
    /\ pc' = "aggregate"
    /\ UNCHANGED <<chunkVars_data, bi, chunk_results, calls, in_flight,
                   final_scores, final_justifications, final_indicators, si,
                   raised, result>>

\* lines 99-114: one chunk result is parsed and merged
AggregateChunk ==
    /\ pc = "aggregate"
    /\ ci <= Len(chunk_results)
    /\ LET merged == AggregateOne([err |-> "", hs |-> hallmark_scores,
                                   hj |-> hallmark_justifications,
                                   hi |-> hallmark_indicators],
                                  chunk_results[ci])
       IN  /\ hallmark_scores' = merged.hs
           /\ hallmark_justifications' = merged.hj
           /\ hallmark_indicators' = merged.hi
           /\ IF merged.err = ""
              THEN ci' = ci + 1 /\ UNCHANGED <<pc, raised>>
              ELSE Raise(merged.err) /\ UNCHANGED ci
    /\ UNCHANGED <<chunkVars_data, bi, chunk_results, calls, in_flight,
                   final_scores, final_justifications, final_indicators, si,
                   result>>

\* lines 116-118
Finalize ==
    /\ pc = "aggregate"
    /\ ci > Len(chunk_results)
    /\ final_scores' = FinalScores(hallmark_scores)
    /\ final_justifications' = JoinedTexts(hallmark_justifications)
    /\ final_indicators' = JoinedTexts(hallmark_indicators)
    /\ si' = 1
    /\ pc' = "sum_j"
    /\ UNCHANGED <<chunkVars_data, bi, chunk_results, calls, in_flight, ci,
                   hallmark_scores, hallmark_justifications,
                   hallmark_indicators, raised, result>>

\* the for loop of line 120 (resp. 127) has keys left
LoopHasNextSkipLast(d, i) == i < Len(d)
LoopHasNext(d, i) == i <= Len(d)

\* lines 123-126 and 130-133: the text kept for a summary
SummaryText(summary) ==
    IF summary.is_dict /\ summary.has_table THEN summary.table ELSE PyStr(summary)

\* lines 120-122: the justifications of the next criterion are sent
SummarizeJustificationCall ==
    /\ pc = "sum_j"
    /\ LoopHasNext(final_justifications, si)
    /\ Issue(Call("justification", final_justifications[si].k,
                  final_justifications[si].v))
    /\ pc' = "sum_j_wait"
    /\ UNCHANGED <<chunkVars_data, bi, chunk_results, ci, hallmark_scores,
                   hallmark_justifications, hallmark_indicators, final_scores,
                   final_justifications, final_indicators, si, raised, result>>

\* lines 122-126
SummarizeJustificationReturn ==
    /\ pc = "sum_j_wait"
    /\ \E reply \in SummaryReplies :
         LET got == get_evaluation(reply)
         IN  IF got.ok
             THEN /\ Settle("returned", reply)
                  /\ final_justifications' =
                        [final_justifications EXCEPT ![si].v = SummaryText(got.value)]
                  /\ si' = si + 1
                  /\ pc' = "sum_j"
                  /\ UNCHANGED raised
             ELSE /\ Settle("raised", reply)
                  /\ Raise("Exception")
                  /\ UNCHANGED <<final_justifications, si>>
    /\ UNCHANGED <<chunkVars_data, bi, chunk_results, ci, hallmark_scores,
                   hallmark_justifications, hallmark_indicators, final_scores,
                   final_indicators, result>>

\* line 127: the first loop is over, the second begins
StartIndicators ==
    /\ pc = "sum_j"
    /\ ~LoopHasNext(final_justifications, si)
    /\ si' = 1
    /\ pc' = "sum_i"
    /\ UNCHANGED <<chunkVars_data, bi, chunk_results, calls, in_flight, ci,
                   hallmark_scores, hallmark_justifications,
                   hallmark_indicators, final_scores, final_justifications,
                   final_indicators, raised, result>>

\* lines 127-129: the indicators of the next criterion are sent
SummarizeIndicatorsCall ==
    /\ pc = "sum_i"
    /\ LoopHasNext(final_indicators, si)
    /\ Issue(Call("indicators", final_indicators[si].k, final_indicators[si].v))
    /\ pc' = "sum_i_wait"
    /\ UNCHANGED <<chunkVars_data, bi, chunk_results, ci, hallmark_scores,
                   hallmark_justifications, hallmark_indicators, final_scores,
                   final_justifications, final_indicators, si, raised, result>>

\* lines 129-133
SummarizeIndicatorsReturn ==
    /\ pc = "sum_i_wait"
    /\ \E reply \in SummaryReplies :
         LET got == get_evaluation(reply)
         IN  IF got.ok
             THEN /\ Settle("returned", reply)
                  /\ final_indicators' =
                        [final_indicators EXCEPT ![si].v = SummaryText(got.value)]
                  /\ si' = si + 1
                  /\ pc' = "sum_i"
                  /\ UNCHANGED raised
             ELSE /\ Settle("raised", reply)
                  /\ Raise("Exception")
                  /\ UNCHANGED <<final_indicators, si>>
    /\ UNCHANGED <<chunkVars_data, bi, chunk_results, ci, hallmark_scores,
                   hallmark_justifications, hallmark_indicators, final_scores,
                   final_justifications, result>>

\* line 134
ReturnValueRecomputed(fs, fj, fi) ==
    [scores |-> FinalScoresFirst(hallmark_scores), justifications |-> fj,
     indicators |-> fi]
ReturnValue(fs, fj, fi) ==
    [scores |-> fs, justifications |-> fj, indicators |-> fi]

Return ==
    /\ pc = "sum_i"
    /\ ~LoopHasNext(final_indicators, si)
    /\ result' = ReturnValue(final_scores, final_justifications, final_indicators)
    /\ pc' = "done"
    /\ UNCHANGED <<chunkVars_data, bi, chunk_results, calls, in_flight, ci,
                   hallmark_scores, hallmark_justifications,
                   hallmark_indicators, final_scores, final_justifications,
                   final_indicators, si, raised>>

(***************************************************************************)
(* process_long_document on the documents within the bounds.               *)
(***************************************************************************)
DocAlphabet == {"a", NL}

Init ==
    /\ text \in SeqsUpTo(DocAlphabet, MaxDocLen)
    /\ max_tokens = DocBudget
    /\ InitLocals

Next ==
    \/ SplitStart
    \/ SplitLine
    \/ SplitFinish
    \/ EnterEvalLoop
    \/ EvalCall
    \/ EvalReturn
    \/ AggregateInit
    \/ AggregateChunk
    \/ Finalize
    \/ SummarizeJustificationCall
    \/ SummarizeJustificationReturn
    \/ StartIndicators
    \/ SummarizeIndicatorsCall
    \/ SummarizeIndicatorsReturn
    \/ Return

Spec == Init /\ [][Next]_vars

(***************************************************************************)
(* Properties of the Chunker.                                              *)
(***************************************************************************)
RECURSIVE Flatten(_)
Flatten(ss) == IF ss = <<>> THEN <<>> ELSE Head(ss) \o Flatten(Tail(ss))

BlockLines(b) == PySplit(b, NL)
BlockTokens(b) ==
    LET ls == BlockLines(b)
        RECURSIVE Sum(_)
        Sum(k) == IF k = 0 THEN 0 ELSE line_tokens(ls[k]) + Sum(k - 1)
    IN  Sum(Len(ls))

SplitReturned == pc = "split_done"

\* C1: the blocks returned by split_text, joined with newlines in order, are
\* the document, and the lines of the blocks, block after block, are the
\* document's lines: each once, in order, none split, dropped or duplicated.
C1_LosslessPartition ==
    SplitReturned =>
        /\ PyJoin(<<NL>>, blocks) = text
        /\ Flatten([k \in 1..Len(blocks) |-> BlockLines(blocks[k])])
              = PySplit(text, NL)

\* a document of several lines cut into several blocks has been returned
C1_Witness ==
    /\ SplitReturned
    /\ Len(blocks) >= 2
    /\ \E k \in 1..Len(blocks) : Len(BlockLines(blocks[k])) >= 2

\* C2: every returned block is a single line or has a token count (the sum
\* of its lines' token counts) of at most max_tokens; a line with more
\* tokens than max_tokens is alone in its block.
C2_BudgetRespected ==
    SplitReturned =>
        \A k \in 1..Len(blocks) :
            /\ Len(BlockLines(blocks[k])) = 1 \/ BlockTokens(blocks[k]) <= max_tokens
            /\ (\E j \in 1..Len(BlockLines(blocks[k])) :
                    line_tokens(BlockLines(blocks[k])[j]) > max_tokens)
                  => Len(BlockLines(blocks[k])) = 1

\* an oversized line alone in its block, next to a block of several lines
\* within the budget
C2_Witness ==
    /\ SplitReturned
    /\ \E k \in 1..Len(blocks) : BlockTokens(blocks[k]) > max_tokens
    /\ \E k \in 1..Len(blocks) :
          Len(BlockLines(blocks[k])) >= 2 /\ BlockTokens(blocks[k]) > 0

\* C3: a document whose lines total at most max_tokens tokens comes back as
\* one block equal to the document; and a block other than the last one was
\* closed because the first line of the next block did not fit.
C3_SingleBlockWhenFits ==
    SplitReturned =>
        /\ line_tokens(Flatten(PySplit(text, NL))) <= max_tokens
              => blocks = <<text>>
        /\ \A k \in 1..(Len(blocks) - 1) :
              BlockTokens(blocks[k]) + line_tokens(BlockLines(blocks[k + 1])[1])
                  > max_tokens

\* a document of three lines that fits the budget exactly, whole in one block
C3_Witness ==
    /\ SplitReturned
    /\ Len(PySplit(text, NL)) = 3
    /\ line_tokens(Flatten(PySplit(text, NL))) = max_tokens
    /\ max_tokens > 0
    /\ blocks = <<text>>

(***************************************************************************)
(* Properties of the parser, the aggregator and the summarization pass.    *)
(***************************************************************************)
Summarizing == pc \in {"sum_j", "sum_j_wait", "sum_i", "sum_i_wait"}
Aggregated == Summarizing \/ pc = "done"

\* The data rows of one table, as their fields: the pipe lines after the
\* header that give at least four fields.
ValidRowsOfTable(table_md) ==
    LET ls == TableLines(table_md)
        rows == IF ls = <<>> THEN <<>>
                ELSE [k \in 1..(Len(ls) - 1) |-> RowCols(ls[k + 1])]
    IN  SelectSeq(rows, LAMBDA cols : Len(cols) >= 4)

\* the same, tabulated once for the tables the oracle chooses from
RowsOfTables == [t \in Tables |-> ValidRowsOfTable(t)]

ValidRowsOf(chunk) ==
    IF ~(chunk.is_dict /\ chunk.has_table) THEN <<>>
    ELSE IF chunk.table \in Tables THEN RowsOfTables[chunk.table]
    ELSE ValidRowsOfTable(chunk.table)

\* the valid rows of the chunks, chunk after chunk, rows top to bottom
AllValidRows(chunks) ==
    Flatten([k \in 1..Len(chunks) |-> ValidRowsOf(chunks[k])])

RowsNaming(chunks, h) == SelectSeq(AllValidRows(chunks), LAMBDA cols : cols[1] = h)

\* the text a score field must be for float() to take it
NumericText(s) ==
    \/ s # <<>> /\ \A k \in 1..Len(s) : s[k] \in Digits
    \/ s = <<"n", "a", "n">>

BadScoreRow(chunks) ==
    LET all == AllValidRows(chunks)
    IN  \E k \in 1..Len(all) : ~NumericText(all[k][2])

RECURSIVE AggregateAll(_, _)
\* the loop of lines 99-114 over a list of chunk results
AggregateAll(acc, chunks) ==
    IF chunks = <<>> THEN acc
    ELSE AggregateAll(AggregateOne(acc, Head(chunks)), Tail(chunks))

Orders(n) ==
    {p \in [1..n -> 1..n] : \A a, b \in 1..n : a # b => p[a] # p[b]}

\* C4: for every criterion of a valid row, the aggregated maxScore is one of
\* the scores parsed for it, none of them is greater, and it is the value
\* the aggregation gives with the chunks in any other order.
C4_MaxScoreOrderIndependent ==
    Aggregated =>
        /\ \A k \in 1..Len(final_scores) :
              LET h == final_scores[k].k
                  rows == RowsNaming(chunk_results, h)
              IN  /\ \E r \in 1..Len(rows) : PyFloat(rows[r][2]).val = final_scores[k].v
                  /\ \A r \in 1..Len(rows) : ~PyGt(PyFloat(rows[r][2]).val, final_scores[k].v)
        /\ \A p \in Orders(Len(chunk_results)) :
              LET shuffled == [k \in 1..Len(chunk_results) |-> chunk_results[p[k]]]
                  again == FinalScores(AggregateAll(
                               [err |-> "", hs |-> <<>>, hj |-> <<>>, hi |-> <<>>],
                               shuffled).hs)
              IN  \A k \in 1..Len(final_scores) :
                      DictGet(again, final_scores[k].k) = final_scores[k].v

\* C5: the text sent with every summarization call is the single-space join
\* of the justification (indicators) field of every valid row naming the
\* criterion, in chunk order then row order, duplicates kept.
C5_JoinedTextInOrder ==
    \A c \in 1..Len(calls) :
        calls[c].kind # "evaluate" =>
            LET rows == RowsNaming(chunk_results, calls[c].h)
                col == IF calls[c].kind = "justification" THEN 3 ELSE 4
            IN  calls[c].body = PyJoin(<<" ">>, [r \in 1..Len(rows) |-> rows[r][col]])

\* criterion X twice in the first chunk and again in the second, with the
\* same justification: "A B A" is sent
C5_Witness ==
    /\ Len(chunk_results) = 2
    /\ \E c \in 1..Len(calls) :
          /\ calls[c].kind = "justification"
          /\ calls[c].body = <<"A", " ", "B", " ", "A">>
    /\ \E c \in 1..Len(calls) :
          /\ calls[c].kind = "indicators"
          /\ calls[c].body = <<"P", " ", "Q", " ", "P">>

\* C6: the keys of the returned scores, justifications and indicators are
\* the same, each once, and are exactly the criteria named by a valid row
\* of some chunk.
C6_KeysAreCriteriaPresent ==
    pc = "done" =>
        /\ DictKeys(result.scores) = DictKeys(result.justifications)
        /\ DictKeys(result.scores) = DictKeys(result.indicators)
        /\ \A a, b \in 1..Len(result.scores) :
              a # b => result.scores[a].k # result.scores[b].k
        /\ LET all == AllValidRows(chunk_results)
           IN  {result.scores[k].k : k \in 1..Len(result.scores)}
                  = {all[k][1] : k \in 1..Len(all)}

\* two chunks; Y is named only by a row of three fields, X by valid rows:
\* the result has X alone
C6_Witness ==
    /\ pc = "done"
    /\ Len(chunk_results) = 2
    /\ \E k \in 1..2 : Contains(chunk_results[k].table, "Y")
    /\ DictKeys(result.scores) = << <<"X">> >>

\* C7: once chunks are parsed, the aggregator holds, per criterion, exactly
\* the rows after the header that give at least four fields (the header and
\* the shorter rows give nothing), with the fourth field as found, empty or
\* not; and a ValueError comes from a row of at least four fields only.
C7_RowsAccepted ==
    /\ (pc = "aggregate" \/ Aggregated) =>
          LET done == SubSeq(chunk_results, 1, ci - 1)
              all == AllValidRows(done)
          IN  /\ \A k \in 1..Len(all) : DictHas(hallmark_scores, all[k][1])
              /\ \A k \in 1..Len(hallmark_scores) :
                    LET h == hallmark_scores[k].k
                        rows == RowsNaming(done, h)
                    IN  /\ rows # <<>>
                        /\ hallmark_scores[k].v
                              = [r \in 1..Len(rows) |-> PyFloat(rows[r][2]).val]
                        /\ DictGet(hallmark_justifications, h)
                              = [r \in 1..Len(rows) |-> rows[r][3]]
                        /\ DictGet(hallmark_indicators, h)
                              = [r \in 1..Len(rows) |-> rows[r][4]]
    /\ raised = "ValueError" => BadScoreRow(<<chunk_results[ci]>>)

\* a chunk with rows of two and three fields before a valid row, and a chunk
\* with the row | Y | 7 | C | |: Y is kept with empty indicators
C7_Witness ==
    /\ Aggregated
    /\ \E k \in 1..Len(chunk_results) :
          \E j \in 1..Len(TableLines(chunk_results[k].table)) :
              Len(RowCols(TableLines(chunk_results[k].table)[j])) \in {2, 3}
    /\ DictHas(hallmark_indicators, <<"Y">>)
    /\ DictGet(hallmark_indicators, <<"Y">>) = << <<>> >>
    /\ DictGet(hallmark_scores, <<"Y">>) = <<Num(7)>>

\* C8: a call that raised is the last call, the pipeline has failed with no
\* result and nothing in flight, and takes no further step; with a
\* non-numeric score in a row of at least four fields after the header, the
\* pipeline never reaches the summarization pass nor returns, and a failure
\* of the parser comes before any summarization call.
C8_AbortOnFirstFailure ==
    /\ \A c \in 1..Len(calls) :
          calls[c].status = "raised" =>
              pc = "failed" /\ raised = "Exception" /\ c = Len(calls)
    /\ pc = "failed" => result = <<>> /\ in_flight = {} /\ ~ENABLED Next
    /\ pc # "done" => result = <<>>
    /\ BadScoreRow(chunk_results) => ~Aggregated
    /\ raised \in {"ValueError", "KeyError", "TypeError"} =>
          \A c \in 1..Len(calls) : calls[c].kind = "evaluate"

\* two chunks evaluated, the first with a non-numeric score: ValueError
C8_Witness ==
    /\ pc = "failed"
    /\ raised = "ValueError"
    /\ Len(chunk_results) = 2
    /\ ci = 1
    /\ Len(calls) = 2

\* C9: at most one call is in flight; the evaluation calls are the first
\* calls, one per block in block order; a summarization call comes after
\* every block's evaluation has returned; and a returned result has seen,
\* after them, one call per present criterion and text kind, 2 x |criteria|
\* in all.
C9_CallSequence ==
    /\ Cardinality(in_flight) <= 1
    /\ \A c \in 1..Len(calls) :
          IF calls[c].kind = "evaluate"
          THEN c <= Len(blocks) /\ calls[c].body = blocks[c]
          ELSE /\ c > Len(blocks)
               /\ \A b \in 1..Len(blocks) :
                     calls[b].kind = "evaluate" /\ calls[b].status = "returned"
    /\ pc = "done" =>
          /\ Len(calls) = Len(blocks) + 2 * Len(result.scores)
          /\ \A k \in 1..Len(result.scores) :
                \A kind \in {"justification", "indicators"} :
                    Cardinality({c \in 1..Len(calls) :
                                    /\ calls[c].kind = kind
                                    /\ calls[c].h = result.scores[k].k}) = 1

\* two blocks and two criteria: six calls, all returned
C9_Witness ==
    /\ pc = "done"
    /\ Len(blocks) = 2
    /\ Len(result.scores) = 2
    /\ Len(calls) = 6

\* C10: during the summarization pass the score mapping does not change,
\* and the scores returned are that mapping.
C10_ScoresUntouched ==
    [][Summarizing =>
          /\ final_scores' = final_scores
          /\ pc' = "done" => result'.scores = final_scores]_vars

\* a result whose texts were replaced by the oracle's and whose score for X
\* is the aggregated 8 of 6 and 8
C10_Witness ==
    /\ pc = "done"
    /\ result.justifications = <<[k |-> <<"X">>, v |-> <<"S">>]>>
    /\ result.indicators = <<[k |-> <<"X">>, v |-> <<"R">>]>>
    /\ hallmark_scores = <<[k |-> <<"X">>, v |-> <<Num(6), Num(8)>>]>>
    /\ result.scores = <<[k |-> <<"X">>, v |-> Num(8)]>>

\* the text the pipeline holds for the criterion and text kind of call c
KeptText(c) ==
    IF calls[c].kind = "justification"
    THEN DictGet(final_justifications, calls[c].h)
    ELSE DictGet(final_indicators, calls[c].h)

SummaryCalls == {c \in 1..Len(calls) : calls[c].kind # "evaluate"}

\* C11: the text kept for a summarization call is the table field
\* of the reply when the reply is a mapping with a table field, and the
\* reply's raw text verbatim otherwise; a reply that came back without the
\* field has not failed the pipeline.
C11_TableOrRawVerbatim ==
    \A c \in SummaryCalls :
        LET r == calls[c].reply
        IN  /\ calls[c].status = "returned" =>
                  KeptText(c) = IF r.shape = "dict" /\ r.has_table
                                THEN r.table ELSE r.raw
            /\ (r.net = "ok" /\ ~r.has_table) => calls[c].status = "returned"

\* What the code does in place of C11: the text kept is the table field when
\* get_evaluation returned a mapping with a table field, and otherwise str()
\* of the value get_evaluation parsed from the reply (the content of a JSON
\* string, the Python repr of a mapping); a reply comes back exactly when
\* get_evaluation parses it (valid JSON, scores absent or a mapping).
SummaryTextIsStrOfParsed ==
    \A c \in SummaryCalls :
        LET r == calls[c].reply
            parses == /\ r.net = "ok"
                      /\ r.shape # "invalid"
                      /\ ~(r.shape = "dict" /\ r.scores \in {"str_bad", "other"})
        IN  /\ calls[c].status = "returned" =>
                  KeptText(c) = IF r.shape = "dict" /\ r.has_table THEN r.table
                                ELSE IF r.shape = "dict" THEN PyRepr(r.raw)
                                ELSE SubSeq(r.raw, 2, Len(r.raw) - 1)
            /\ calls[c].status # "pending" =>
                  (calls[c].status = "returned" <=> parses)

\* C12: every score the parser accepted, and every maxScore of
\* the aggregated and of the returned mapping, is a number from 0 to 10.
C12_ScoresInRange ==
    LET InRange(x) == ~x.nan /\ 0 <= x.v /\ x.v <= 10
    IN  /\ \A k \in 1..Len(hallmark_scores) :
              \A j \in 1..Len(hallmark_scores[k].v) : InRange(hallmark_scores[k].v[j])
        /\ \A k \in 1..Len(final_scores) : InRange(final_scores[k].v)
        /\ pc = "done" => \A k \in 1..Len(result.scores) : InRange(result.scores[k].v)

====
